---- MODULE Spec2Model ----
(***************************************************************************)
(* add-staves: the pagination and layout engine of src/add_staves/app.py.  *)
(*                                                                         *)
(* main() pairs every page of the score with the staves block, packs the   *)
(* systems onto pages (auto-fit, single page, explicit grouping) and then  *)
(* prints every page with printPage().  The packing loop is modelled one   *)
(* iteration per step, the printing loop one printPage() call per step.    *)
(*                                                                         *)
(* Python's true division in printPage (slack / len(page)) is modelled     *)
(* exactly: every vertical coordinate of a page is kept multiplied by      *)
(* len(page) (field "scale" of a written page), so no rounding happens.    *)
(* Indices (pageIndex, systemIndex, groupIndex, outerIndex, innerIndex)    *)
(* keep the 0-based values of the source; sequences are 1-based.           *)
(***************************************************************************)
EXTENDS Integers, Sequences, FiniteSets, TLC

\* ---------------------------------------------------------------------
\* Bounds of the model

\* Largest number of pages of the score (= systems).
MaxSystems == 3
\* Largest entry of a grouping plan, and longest plan.
MaxGroup == 2
MaxPlanLen == 2
\* Heights of the score pages, height of the staves block.
ScoreHeights == {1, 3}
StaffHeights == {2}
\* Spacing and margin values, page heights.
Spacings == {0, 1}
Margins == {0, 1}
PageHeights == {1, 7, 12}

\* ---------------------------------------------------------------------
\* Program constants

\* The literal 538.582461 the code compares cropbox.width with, in 1e-6 units.
StaffWidth == 538582461
\* Defaults of the options leftMargin, shift, ragged, raggedLast, above,
\* dropFirst, dropLast.
leftMargin == 20
shift == 0
DefaultFlags ==
    [above |-> FALSE, ragged |-> FALSE, raggedLast |-> TRUE,
     dropFirst |-> FALSE, dropLast |-> FALSE]

\* Widths a page of the score may have: the staves' width or another one.
ScoreWidths == {StaffWidth, StaffWidth + 1}

VARIABLES
    systems,        \* main: the list of [score, staves] / [staves, score] pairs
    groups,         \* main: the grouping plan; [given |-> FALSE] is None
    innerSpacing, outerSpacing, topMargin, bottomMargin, pageHeight,
    above, ragged, raggedLast, dropFirst, dropLast,
    pages,          \* main: list of pages, each a list of systems
    pageIndex, systemIndex, groupIndex,
    pc,             \* "pack", "print", "done", "error"
    printIndex,     \* index of the enumerate(pages) loop
    written,        \* the canvases added to the writer, in order
    plan,           \* history: the value of groups at the start of main
    iterations,     \* history: executions of the body of the packing loop
    rewinds         \* history: executions of systemIndex -= 1

config == <<systems, innerSpacing, outerSpacing, topMargin, bottomMargin,
            pageHeight, above, ragged, raggedLast, dropFirst, dropLast, plan>>
packing == <<groups, pages, pageIndex, systemIndex, groupIndex, iterations, rewinds>>
printing == <<printIndex, written>>
vars == <<config, packing, printing, pc>>

\* ---------------------------------------------------------------------
\* Values

Max(a, b) == IF a >= b THEN a ELSE b

\* A page of the score: reader.pages[id], with its cropbox height and width.
ScorePage(id, h, w) == [kind |-> "score", id |-> id, height |-> h, width |-> w]

\* The staves block: one object shared by all systems.  Its cropbox width is
\* the literal the code recognises staves by.
stavesParser(h) == [kind |-> "staff", id |-> 0, height |-> h, width |-> StaffWidth]

\* systems = [[staves, score] if above else [score, staves] for score in reader.pages]
PairSystems(readerPages, staves, abv) ==
    [i \in 1..Len(readerPages) |->
        IF abv THEN <<staves, readerPages[i]>> ELSE <<readerPages[i], staves>>]

None == [given |-> FALSE, list |-> <<>>]
Given(l) == [given |-> TRUE, list |-> l]

\* groupsParser yields None, [] or a list of positive integers.
Plans == UNION {[1..k -> 1..MaxGroup] : k \in 0..MaxPlanLen}
GroupValues == {None} \cup {Given(l) : l \in Plans}

RECURSIVE SumHeights(_)
SumHeights(objects) ==
    IF objects = <<>> THEN 0
    ELSE Head(objects).height + SumHeights(Tail(objects))

RECURSIVE Flatten(_)
Flatten(page) ==
    IF page = <<>> THEN <<>> ELSE Head(page) \o Flatten(Tail(page))

\* Mutant: the spacings are counted once, not once per system.
getHeight_SpacingOnce(page, inner, outer, top, bottom) ==
    inner + outer + top + bottom + SumHeights(Flatten(page))

\* getHeight: the total height of PAGE.
getHeight(page, inner, outer, top, bottom) ==
    Len(page) * inner
    + (Len(page) - 1) * outer
    + top
    + bottom
    + SumHeights(Flatten(page))

\* ---------------------------------------------------------------------
\* printPage

\* Mutant: a block is skipped only in the first slot of the first system or
\* the last slot of the last system.
RECURSIVE innerLoop_BySlot(_, _, _, _, _, _)
innerLoop_BySlot(page, outerIndex, innerIndex, st, dF, dL) ==
    LET system == page[outerIndex + 1]
        n == Len(page)
    IN  IF innerIndex = Len(system) THEN st
        ELSE LET object == system[innerIndex + 1]
                 skip == \/ /\ dF /\ object.width = StaffWidth
                             /\ outerIndex = 0 /\ innerIndex = 0
                         \/ /\ dL /\ object.width = StaffWidth
                             /\ (outerIndex + 1) = Len(page)
                             /\ (innerIndex + 1) = Len(system)
                 op == [outerIndex |-> outerIndex, innerIndex |-> innerIndex,
                        object |-> object,
                        left |-> leftMargin + (IF object.width = StaffWidth THEN shift ELSE 0),
                        top |-> st.height]
                 h1 == st.height - n * object.height
                 h2 == IF (innerIndex + 1) # Len(system) THEN h1 - n * innerSpacing ELSE h1
                 drawn == [st EXCEPT !.height = h2, !.ops = Append(@, op)]
             IN  innerLoop_BySlot(page, outerIndex, innerIndex + 1,
                                  IF skip THEN st ELSE drawn, dF, dL)

\* The inner for loop of printPage, from innerIndex on.  st.height is the
\* running height times Len(page).
RECURSIVE innerLoop(_, _, _, _, _, _)
innerLoop(page, outerIndex, innerIndex, st, dF, dL) ==
    LET system == page[outerIndex + 1]
        n == Len(page)
    IN  IF innerIndex = Len(system) THEN st
        ELSE LET object == system[innerIndex + 1]
                 skip == \/ dF /\ object.width = StaffWidth /\ outerIndex = 0
                         \/ dL /\ object.width = StaffWidth /\ (outerIndex + 1) = Len(page)
                 op == [outerIndex |-> outerIndex, innerIndex |-> innerIndex,
                        object |-> object,
                        left |-> leftMargin + (IF object.width = StaffWidth THEN shift ELSE 0),
                        top |-> st.height]
                 h1 == st.height - n * object.height
                 h2 == IF (innerIndex + 1) # Len(system) THEN h1 - n * innerSpacing ELSE h1
                 drawn == [st EXCEPT !.height = h2, !.ops = Append(@, op)]
             IN  innerLoop(page, outerIndex, innerIndex + 1,
                           IF skip THEN st ELSE drawn, dF, dL)

\* Mutant: the redistributed spacing is used when ragged is set.
OuterGap_WhenRagged(page, rag) ==
    LET n == Len(page)
        raggedOuterSpacing ==
            n * outerSpacing
            + (pageHeight - getHeight(page, innerSpacing, outerSpacing, topMargin, bottomMargin))
    IN  IF rag THEN raggedOuterSpacing ELSE n * outerSpacing

\* The spacing printPage puts after a system that is not the last of the
\* page, times Len(page).
OuterGap(page, rag) ==
    LET n == Len(page)
        raggedOuterSpacing ==
            n * outerSpacing
            + (pageHeight - getHeight(page, innerSpacing, outerSpacing, topMargin, bottomMargin))
    IN  IF rag THEN n * outerSpacing ELSE raggedOuterSpacing

\* The outer for loop of printPage, from outerIndex on.
RECURSIVE outerLoop(_, _, _, _, _, _)
outerLoop(page, outerIndex, st, rag, dF, dL) ==
    IF outerIndex = Len(page) THEN st
    ELSE LET s1 == innerLoop(page, outerIndex, 0, st, dF, dL)
             s2 == IF (outerIndex + 1) # Len(page)
                   THEN [s1 EXCEPT !.height = @ - OuterGap(page, rag),
                                   !.gaps = Append(@, OuterGap(page, rag))]
                   ELSE s1
         IN  outerLoop(page, outerIndex + 1, s2, rag, dF, dL)

\* Mutant: the canvas is always pageHeight high.
CanvasHeight_Nominal(page) == pageHeight

\* The height of the canvas printPage adds to the writer.
CanvasHeight(page) ==
    Max(getHeight(page, innerSpacing, outerSpacing, topMargin, bottomMargin), pageHeight)

\* printPage on a non-empty page: the canvas and what is merged onto it.
printPage(page, rag, dF, dL) ==
    LET n == Len(page)
        height == CanvasHeight(page)
        st0 == [height |-> n * (height - topMargin), ops |-> <<>>, gaps |-> <<>>]
        st == outerLoop(page, 0, st0, rag, dF, dL)
    IN  [page |-> page, scale |-> n, canvas |-> height,
         ragged |-> rag, dropFirst |-> dF, dropLast |-> dL,
         ops |-> st.ops, gaps |-> st.gaps, height |-> st.height]

\* ---------------------------------------------------------------------
\* Initial states

InitWith(flagSet, spacingSet, marginSet) ==
    /\ \E n \in 1..MaxSystems :
       \E hs \in [1..n -> ScoreHeights] :
       \E w \in ScoreWidths :
       \E sh \in StaffHeights :
       \E f \in flagSet :
          /\ above = f.above
          /\ ragged = f.ragged
          /\ raggedLast = f.raggedLast
          /\ dropFirst = f.dropFirst
          /\ dropLast = f.dropLast
          /\ systems = PairSystems([i \in 1..n |-> ScorePage(i, hs[i], w)],
                                   stavesParser(sh), f.above)
    /\ groups \in GroupValues
    /\ plan = groups
    /\ innerSpacing \in spacingSet
    /\ outerSpacing \in spacingSet
    /\ topMargin \in marginSet
    /\ bottomMargin \in marginSet
    /\ pageHeight \in PageHeights
    /\ pages = << <<>> >>
    /\ pageIndex = 0
    /\ systemIndex = 0
    /\ groupIndex = 0
    /\ pc = "pack"
    /\ printIndex = 0
    /\ written = <<>>
    /\ iterations = 0
    /\ rewinds = 0

\* Every geometry, the flags at their defaults.
Init == InitWith({DefaultFlags}, Spacings, Margins)

AllFlags == [above : BOOLEAN, ragged : BOOLEAN, raggedLast : BOOLEAN,
             dropFirst : BOOLEAN, dropLast : BOOLEAN]

\* Every combination of the flags, spacings and margins of 1.
InitFlags == InitWith(AllFlags, {1}, {1})

\* ---------------------------------------------------------------------
\* The packing loop: one action per branch of the loop body

system == systems[systemIndex + 1]
currentPage == pages[pageIndex + 1]

InLoop == pc = "pack" /\ systemIndex < Len(systems)

\* pages[pageIndex].append(system)
AppendToCurrent == [pages EXCEPT ![pageIndex + 1] = Append(@, system)]

\* pageIndex += 1; pages.append([]); pages[pageIndex].append(system)
AppendToNew == Append(pages, <<system>>)

\* Mutant: the auto-fit test with < in place of <=.
Fits_Strict ==
    getHeight(Append(currentPage, system), innerSpacing, outerSpacing,
              topMargin, bottomMargin) < pageHeight

\* The test of the auto-fit branch.
Fits ==
    getHeight(Append(currentPage, system), innerSpacing, outerSpacing,
              topMargin, bottomMargin) <= pageHeight

\* case None, the system fits.
AutoFitAppend ==
    /\ InLoop
    /\ ~groups.given
    /\ Fits
    /\ pages' = AppendToCurrent
    /\ systemIndex' = systemIndex + 1
    /\ iterations' = iterations + 1
    /\ UNCHANGED <<config, groups, pageIndex, groupIndex, rewinds, printing, pc>>

\* Mutant: a system that does not fit is put on the current page all the same.
AutoFitNewPage_Overfill ==
    /\ InLoop
    /\ ~groups.given
    /\ ~Fits
    /\ pages' = AppendToCurrent
    /\ systemIndex' = systemIndex + 1
    /\ iterations' = iterations + 1
    /\ UNCHANGED <<config, groups, pageIndex, groupIndex, rewinds, printing, pc>>

\* case None, the system does not fit.
AutoFitNewPage ==
    /\ InLoop
    /\ ~groups.given
    /\ ~Fits
    /\ pageIndex' = pageIndex + 1
    /\ pages' = AppendToNew
    /\ systemIndex' = systemIndex + 1
    /\ iterations' = iterations + 1
    /\ UNCHANGED <<config, groups, groupIndex, rewinds, printing, pc>>

\* Mutant: the single-page branch checks the height as auto-fit does.
SinglePageAppend_HeightChecked ==
    /\ InLoop
    /\ groups.given
    /\ groups.list = <<>>
    /\ IF Fits
       THEN pages' = AppendToCurrent /\ pageIndex' = pageIndex
       ELSE pages' = AppendToNew /\ pageIndex' = pageIndex + 1
    /\ systemIndex' = systemIndex + 1
    /\ iterations' = iterations + 1
    /\ UNCHANGED <<config, groups, groupIndex, rewinds, printing, pc>>

\* case []
SinglePageAppend ==
    /\ InLoop
    /\ groups.given
    /\ groups.list = <<>>
    /\ pages' = AppendToCurrent
    /\ systemIndex' = systemIndex + 1
    /\ iterations' = iterations + 1
    /\ UNCHANGED <<config, groups, pageIndex, groupIndex, rewinds, printing, pc>>

InGrouped == InLoop /\ groups.given /\ groups.list # <<>>

\* The grouped branch has no else: with len(pages[pageIndex]) > groups[groupIndex]
\* the system would be passed over.  The entries of a plan are positive and a
\* new page starts with one system, so that case does not arise.
\* Mutant: the step that gives up the plan also places the system.
GroupedExhausted_PlacesSystem ==
    /\ InLoop /\ groups.given /\ groups.list # <<>>
    /\ groupIndex = Len(groups.list)
    /\ groups' = None
    /\ pages' = AppendToCurrent
    /\ systemIndex' = (systemIndex - 1) + 1
    /\ rewinds' = rewinds + 1
    /\ iterations' = iterations + 1
    /\ UNCHANGED <<config, pageIndex, groupIndex, printing, pc>>

\* Mutant: the rewind goes back two systems.
GroupedExhausted_RewindsTwo ==
    /\ InLoop /\ groups.given /\ groups.list # <<>>
    /\ groupIndex = Len(groups.list)
    /\ groups' = None
    /\ systemIndex' = (systemIndex - 2) + 1
    /\ rewinds' = rewinds + 1
    /\ iterations' = iterations + 1
    /\ UNCHANGED <<config, pages, pageIndex, groupIndex, printing, pc>>

\* Mutant: the plan is given up without the rewind.
GroupedExhausted_NoRewind ==
    /\ InLoop /\ groups.given /\ groups.list # <<>>
    /\ groupIndex = Len(groups.list)
    /\ groups' = None
    /\ systemIndex' = systemIndex + 1
    /\ iterations' = iterations + 1
    /\ UNCHANGED <<config, pages, pageIndex, groupIndex, rewinds, printing, pc>>

\* case _, groupIndex == len(groups): groups = None; systemIndex -= 1,
\* followed by the systemIndex += 1 that ends the loop body.
GroupedExhausted ==
    /\ InGrouped
    /\ groupIndex = Len(groups.list)
    /\ groups' = None
    /\ systemIndex' = (systemIndex - 1) + 1
    /\ rewinds' = rewinds + 1
    /\ iterations' = iterations + 1
    /\ UNCHANGED <<config, pages, pageIndex, groupIndex, printing, pc>>

\* case _, len(pages[pageIndex]) < groups[groupIndex]
GroupedAppend ==
    /\ InGrouped
    /\ groupIndex # Len(groups.list)
    /\ Len(currentPage) < groups.list[groupIndex + 1]
    /\ pages' = AppendToCurrent
    /\ systemIndex' = systemIndex + 1
    /\ iterations' = iterations + 1
    /\ UNCHANGED <<config, groups, pageIndex, groupIndex, rewinds, printing, pc>>

\* Mutant: a page is closed without advancing to the next plan entry.
GroupedClose_SameEntry ==
    /\ InLoop /\ groups.given /\ groups.list # <<>>
    /\ groupIndex # Len(groups.list)
    /\ Len(currentPage) = groups.list[groupIndex + 1]
    /\ pageIndex' = pageIndex + 1
    /\ pages' = AppendToNew
    /\ systemIndex' = systemIndex + 1
    /\ iterations' = iterations + 1
    /\ UNCHANGED <<config, groups, groupIndex, rewinds, printing, pc>>

\* case _, len(pages[pageIndex]) == groups[groupIndex]
GroupedClose ==
    /\ InGrouped
    /\ groupIndex # Len(groups.list)
    /\ Len(currentPage) = groups.list[groupIndex + 1]
    /\ groupIndex' = groupIndex + 1
    /\ pageIndex' = pageIndex + 1
    /\ pages' = AppendToNew
    /\ systemIndex' = systemIndex + 1
    /\ iterations' = iterations + 1
    /\ UNCHANGED <<config, groups, rewinds, printing, pc>>

\* The loop condition fails: writer = PdfWriter() and the printing loop starts.
LoopExit ==
    /\ pc = "pack"
    /\ systemIndex >= Len(systems)
    /\ pc' = "print"
    /\ UNCHANGED <<config, packing, printing>>

\* ---------------------------------------------------------------------
\* The printing loop

\* The flags main passes to printPage for the page at index.
PageRagged(index) == IF (index + 1) = Len(pages) THEN raggedLast ELSE ragged
\* Mutant: dropFirst is passed on for every page.
PageDropFirst_EveryPage(index) == dropFirst
PageDropFirst(index) == IF index = 0 THEN dropFirst ELSE FALSE
\* Mutant: dropLast is passed on for every page.
PageDropLast_EveryPage(index) == dropLast
PageDropLast(index) == IF (index + 1) = Len(pages) THEN dropLast ELSE FALSE

\* One printPage call.  On an empty page the division by len(page) raises
\* ZeroDivisionError before the canvas is added, and main ends with it.
PrintPageStep ==
    /\ pc = "print"
    /\ printIndex < Len(pages)
    /\ LET page == pages[printIndex + 1] IN
       IF Len(page) = 0
       THEN /\ pc' = "error"
            /\ UNCHANGED printing
       ELSE /\ written' = Append(written,
                                 printPage(page, PageRagged(printIndex),
                                           PageDropFirst(printIndex),
                                           PageDropLast(printIndex)))
            /\ printIndex' = printIndex + 1
            /\ pc' = pc
    /\ UNCHANGED <<config, packing>>

\* All pages are printed: the document is written to disk.
WriteDocument ==
    /\ pc = "print"
    /\ printIndex = Len(pages)
    /\ pc' = "done"
    /\ UNCHANGED <<config, packing, printing>>

Next ==
    \/ AutoFitAppend
    \/ AutoFitNewPage
    \/ SinglePageAppend
    \/ GroupedExhausted
    \/ GroupedAppend
    \/ GroupedClose
    \/ LoopExit
    \/ PrintPageStep
    \/ WriteDocument

Spec == Init /\ [][Next]_vars
SpecFlags == InitFlags /\ [][Next]_vars

\* The runs checked for termination: spacings and margins of 1, the default
\* flags, a page height that holds two low systems but not two high ones,
\* score pages of one height and of another width than the staves.
InitLive ==
    /\ InitWith({DefaultFlags}, {1}, {1})
    /\ pageHeight = 12
    /\ \A i \in 1..Len(systems) :
            /\ systems[i][1].width # StaffWidth
            /\ systems[i][1].height = systems[1][1].height

\* main runs as one sequential thread: a step that can be taken is taken.
SpecLive == InitLive /\ [][Next]_vars /\ WF_vars(Next)

\* ---------------------------------------------------------------------
\* getHeight on its own: pages of one-block and two-block systems with
\* block heights from 0 on, grown one system at a time as the packing loop
\* does in getHeight(pages[pageIndex] + [system], ...).

HeightBlocks == {ScorePage(0, h, StaffWidth + 1) : h \in {0, 1}}
HeightSystems == {<<b>> : b \in HeightBlocks}
                 \cup {<<a, b>> : a \in HeightBlocks, b \in HeightBlocks}

InitHeight ==
    /\ systems \in UNION {[1..n -> HeightSystems] : n \in 1..MaxSystems}
    /\ innerSpacing \in Spacings
    /\ outerSpacing \in Spacings
    /\ topMargin \in Margins
    /\ bottomMargin \in Margins
    /\ pageHeight \in {0}
    /\ groups = None
    /\ plan = None
    /\ above = DefaultFlags.above
    /\ ragged = DefaultFlags.ragged
    /\ raggedLast = DefaultFlags.raggedLast
    /\ dropFirst = DefaultFlags.dropFirst
    /\ dropLast = DefaultFlags.dropLast
    /\ pages = << <<>> >>
    /\ pageIndex = 0
    /\ systemIndex = 0
    /\ groupIndex = 0
    /\ pc = "height"
    /\ printIndex = 0
    /\ written = <<>>
    /\ iterations = 0
    /\ rewinds = 0

\* One call getHeight(pages[pageIndex] + [system], ...), its result recorded
\* in written, and the system appended.
GetHeightCall ==
    /\ pc = "height"
    /\ systemIndex < Len(systems)
    /\ pages' = AppendToCurrent
    /\ written' = Append(written,
            [page |-> Append(currentPage, system),
             required |-> getHeight(Append(currentPage, system), innerSpacing,
                                    outerSpacing, topMargin, bottomMargin)])
    /\ systemIndex' = systemIndex + 1
    /\ UNCHANGED <<config, groups, pageIndex, groupIndex, iterations, rewinds,
                   printIndex, pc>>

NextHeight == GetHeightCall

SpecHeight == InitHeight /\ [][NextHeight]_vars

\* ---------------------------------------------------------------------
\* Properties

PageNumbers == 1..Len(pages)
Required(page) == getHeight(page, innerSpacing, outerSpacing, topMargin, bottomMargin)
OverHeight(s) == Required(<<s>>) > pageHeight
AutoFitRun == ~plan.given
SinglePageRun == plan.given /\ plan.list = <<>>
GroupedRun == plan.given /\ plan.list # <<>>
Packed == pc # "pack"

RECURSIVE SumTo(_, _)
SumTo(list, i) == IF i = 0 THEN 0 ELSE list[i] + SumTo(list, i - 1)

RECURSIVE SumSeq(_)
SumSeq(q) == IF q = <<>> THEN 0 ELSE Head(q) + SumSeq(Tail(q))

\* C1: when the packing loop has ended, the pages concatenated in page
\* order are exactly the systems of the score in their original order (the
\* systems carry distinct ids, so none is missing, doubled or moved), in
\* every grouping mode.
C1_CoverageAndOrder == Packed => Flatten(pages) = systems

\* C1 witness: a grouped run that went through the rewind at plan
\* exhaustion and packed three systems onto three pages.
C1_Witness ==
    /\ pc = "print"
    /\ GroupedRun
    /\ rewinds = 1
    /\ Len(systems) = 3
    /\ Len(pages) = 3
    /\ Flatten(pages) = systems

\* C2: under AUTO_FIT a system that alone is higher than pageHeight is no
\* error wherever it stands: the run never reaches the error state, and
\* once packed the system is the only one on its page.
C2_OverHeightIsNoError ==
    (AutoFitRun /\ \E i \in 1..Len(systems) : OverHeight(systems[i]))
        => /\ pc # "error"
           /\ Packed =>
                \A p \in PageNumbers : \A k \in 1..Len(pages[p]) :
                    OverHeight(pages[p][k]) => Len(pages[p]) = 1

\* C3: every page handed to printPage holds at least one system, in every
\* grouping mode.
C3_NoEmptyPagePrinted ==
    Packed => \A p \in PageNumbers : Len(pages[p]) >= 1

\* C4: under AUTO_FIT every page of two or more systems has
\* requiredHeight <= pageHeight, and a page with requiredHeight >
\* pageHeight holds exactly one system.
C4_AutoFitCapacity ==
    (AutoFitRun /\ Packed) =>
        \A p \in PageNumbers :
            /\ Len(pages[p]) >= 2 => Required(pages[p]) <= pageHeight
            /\ Required(pages[p]) > pageHeight => Len(pages[p]) = 1

\* C5: under GROUPED with plan g_1..g_k, page i holds exactly g_i systems
\* whenever the score has at least g_1+...+g_i systems, and a score of
\* exactly g_1+...+g_k systems gives exactly k pages, whatever pageHeight.
C5_GroupingFidelity ==
    (GroupedRun /\ Packed) =>
        LET g == plan.list
            k == Len(g)
            N == Len(systems)
        IN  /\ \A i \in 1..k :
                N >= SumTo(g, i) => (Len(pages) >= i /\ Len(pages[i]) = g[i])
            /\ N = SumTo(g, k) => Len(pages) = k

\* C5 witness: plan [1, 2] on three systems, each of them over-height,
\* packed onto a page of one and a page of two.
C5_Witness ==
    /\ pc = "print"
    /\ plan = Given(<<1, 2>>)
    /\ Len(systems) = 3
    /\ Len(pages) = 2
    /\ Len(pages[2]) = 2
    /\ \A i \in 1..3 : OverHeight(systems[i])

\* Slack of a page times 1 (pageHeight - requiredHeight).
Slack(page) == pageHeight - Required(page)

\* Margins, blocks, inner gaps and the gaps printPage applied between the
\* systems of a written page, times the page's scale.
ContentExtent(w) ==
    w.scale * (topMargin + bottomMargin + SumHeights(Flatten(w.page))
               + Len(w.page) * innerSpacing)
    + SumSeq(w.gaps)

\* C6: on a page of N >= 2 systems printed with the redistributed spacing,
\* every gap between systems is outerSpacing + S/N, and margins, blocks,
\* inner gaps and the gaps between systems add up to
\* max(requiredHeight(page), pageHeight).
C6_RaggedFillsCanvas ==
    \A p \in 1..Len(written) :
        LET w == written[p] IN
        (w.scale >= 2 /\ ~w.ragged) =>
            /\ \A j \in 1..Len(w.gaps) :
                    w.gaps[j] = w.scale * outerSpacing + Slack(w.page)
            /\ ContentExtent(w) = w.scale * Max(Required(w.page), pageHeight)

\* The systems of written page p whose staves block was not drawn.
UndrawnStaff(p) ==
    LET w == written[p] IN
    {o \in 0..(Len(w.page) - 1) :
        \E i \in 0..(Len(w.page[o + 1]) - 1) :
            /\ w.page[o + 1][i + 1].kind = "staff"
            /\ ~\E k \in 1..Len(w.ops) :
                    w.ops[k].outerIndex = o /\ w.ops[k].innerIndex = i}

\* C7: with dropFirst set and dropLast unset, of all printed pages only
\* the first system of the first page lacks its staves block; every other
\* staves block is drawn, with the staves above or below.
C7_DropFirstDropsOneStaff ==
    (dropFirst /\ ~dropLast) =>
        \A p \in 1..Len(written) :
            UndrawnStaff(p) = IF p = 1 THEN {0} ELSE {}

\* C7 witness: a finished document of two or more pages, the first with
\* two or more systems, staves above, dropFirst set and dropLast unset.
C7_Witness ==
    /\ pc = "done"
    /\ dropFirst /\ ~dropLast /\ above
    /\ Len(written) >= 2
    /\ Len(written[1].page) >= 2
    /\ UndrawnStaff(1) = {0}

\* C8: with an empty plan there is one page at all times, the mode never
\* changes, and when the loop has ended the page holds all the systems,
\* whatever pageHeight.
C8_SinglePage ==
    SinglePageRun =>
        /\ groups = plan
        /\ Len(pages) = 1
        /\ pageIndex = 0
        /\ Packed => pages[1] = systems

\* C8 witness: a finished single-page run of three systems whose page is
\* higher than pageHeight.
C8_Witness ==
    /\ pc = "done"
    /\ SinglePageRun
    /\ Len(systems) = 3
    /\ Len(pages) = 1
    /\ Required(pages[1]) > pageHeight

\* C9: the canvas of every printed page is as high as the larger of
\* requiredHeight(page) and pageHeight, never lower than either.
C9_CanvasHeight ==
    \A p \in 1..Len(written) :
        LET w == written[p]
            r == Required(w.page)
        IN  /\ w.canvas >= pageHeight
            /\ w.canvas >= r
            /\ w.canvas = r \/ w.canvas = pageHeight

\* C9 witness: a finished document with a page grown beyond pageHeight
\* and a page whose content needs less than pageHeight.
C9_Witness ==
    /\ pc = "done"
    /\ \E p \in 1..Len(written) : written[p].canvas > pageHeight
    /\ \E p \in 1..Len(written) :
            /\ written[p].canvas = pageHeight
            /\ Required(written[p].page) < pageHeight

\* Pages p and p+1 were separated by the auto-fit branch: always in an
\* auto-fit run, and after the pages of the plan in a grouped run.
AutoFitBreak(p) ==
    /\ p + 1 <= Len(pages)
    /\ \/ AutoFitRun
       \/ GroupedRun /\ p + 1 > Len(plan.list) + 1

\* C10: auto-fit packing is greedy: wherever the auto-fit branch started a
\* new page, the first system of the new page added to the page before it
\* gives requiredHeight > pageHeight.
C10_GreedyMaximal ==
    \A p \in PageNumbers :
        AutoFitBreak(p) =>
            Required(Append(pages[p], pages[p + 1][1])) > pageHeight

\* C10 witness: an auto-fit run that filled its first page with two
\* systems exactly up to pageHeight and then started a second page.
C10_Witness ==
    /\ pc = "print"
    /\ AutoFitRun
    /\ Len(pages) = 2
    /\ Len(pages[1]) = 2
    /\ Required(pages[1]) = pageHeight


\* C11: with positive inner and outer spacing and block heights from 0 on,
\* getHeight grows strictly with every system appended to a non-empty page;
\* for a page of one system of one block with both spacings 0 it is
\* topMargin + bottomMargin + the block's height.
C11_HeightMonotone ==
    /\ (innerSpacing > 0 /\ outerSpacing > 0) =>
            \A i \in 1..(Len(written) - 1) :
                written[i + 1].required > written[i].required
    /\ (/\ Len(written) >= 1
        /\ Len(written[1].page[1]) = 1
        /\ innerSpacing = 0
        /\ outerSpacing = 0) =>
            written[1].required
                = topMargin + bottomMargin + written[1].page[1][1].height

\* C11 witness: positive spacings, three systems appended one by one, the
\* second and third with blocks of height 0 only.
C11_Witness ==
    /\ pc = "height"
    /\ innerSpacing > 0 /\ outerSpacing > 0
    /\ Len(written) = 3
    /\ \A i \in 2..3 : SumHeights(systems[i]) = 0
    /\ written[3].required > written[2].required


Drawn(w, o, i) ==
    \E k \in 1..Len(w.ops) : w.ops[k].outerIndex = o /\ w.ops[k].innerIndex = i

\* The slots <<o, i>> of written page w that hold a block of the given kind.
Slots(w, kind) ==
    {s \in (0..(Len(w.page) - 1)) \X {0, 1} :
        /\ s[2] < Len(w.page[s[1] + 1])
        /\ w.page[s[1] + 1][s[2] + 1].kind = kind}

\* C13 as claimed: a staves block is left out only in the first slot of the
\* first system of a page printed with dropFirst, or in the last slot of
\* the last system of a page printed with dropLast; in any other slot it is
\* drawn.
C13_SuppressionBySlot ==
    \A p \in 1..Len(written) :
        LET w == written[p] IN
        \A s \in Slots(w, "staff") :
            ~Drawn(w, s[1], s[2]) =>
                \/ w.dropFirst /\ s[1] = 0 /\ s[2] = 0
                \/ /\ w.dropLast
                   /\ s[1] + 1 = Len(w.page)
                   /\ s[2] + 1 = Len(w.page[s[1] + 1])

\* C13 amended: suppression goes by system, not by slot: a staves block is
\* left out exactly when it belongs to the first system of a page printed
\* with dropFirst or to the last system of a page printed with dropLast,
\* in whichever slot it sits.
C13_SuppressionBySystem ==
    \A p \in 1..Len(written) :
        LET w == written[p] IN
        \A s \in Slots(w, "staff") :
            ~Drawn(w, s[1], s[2]) <=>
                \/ w.dropFirst /\ s[1] = 0
                \/ w.dropLast /\ s[1] + 1 = Len(w.page)

\* C13 witness: staves below, a first page of two systems printed with
\* dropFirst only: the staves block in the second slot of the first system
\* is left out, that of the second system is drawn.
C13_Witness ==
    /\ ~above
    /\ Len(written) >= 1
    /\ written[1].dropFirst /\ ~written[1].dropLast
    /\ Len(written[1].page) = 2
    /\ ~Drawn(written[1], 0, 1)
    /\ Drawn(written[1], 1, 1)


\* C14: page i of P is printed with ragged = raggedLast if i = P and the
\* configured ragged otherwise, with dropFirst as configured if i = 1 and
\* false otherwise, and with dropLast as configured if i = P and false
\* otherwise; a single page gets raggedLast, dropFirst and dropLast.
C14_PerPageFlags ==
    \A p \in 1..Len(written) :
        LET w == written[p]
            P == Len(pages)
        IN  /\ w.ragged = IF p = P THEN raggedLast ELSE ragged
            /\ w.dropFirst = IF p = 1 THEN dropFirst ELSE FALSE
            /\ w.dropLast = IF p = P THEN dropLast ELSE FALSE

\* C14 witness: a finished document of three pages with ragged set,
\* raggedLast unset and both drop flags set.
C14_Witness ==
    /\ pc = "done"
    /\ Len(written) = 3
    /\ ragged /\ ~raggedLast /\ dropFirst /\ dropLast
    /\ written[1].ragged /\ written[1].dropFirst /\ ~written[1].dropLast
    /\ written[2].ragged /\ ~written[2].dropFirst /\ ~written[2].dropLast
    /\ ~written[3].ragged /\ ~written[3].dropFirst /\ written[3].dropLast


SumAll(list) == SumTo(list, Len(list))

\* A step of the packing loop that takes groups from a plan to None.
Transition == groups.given /\ ~groups'.given

\* A step of the packing loop that turns None into a plan again.
Reversal == ~groups.given /\ groups'.given

\* The step places the current system as the auto-fit branch does.
PlacedByAutoFit ==
    /\ systemIndex' = systemIndex + 1
    /\ pages' = IF Fits THEN AppendToCurrent ELSE AppendToNew

\* C15 as claimed: the step from GROUPED to AUTO_FIT happens at most once
\* and is never reversed, it is taken while the system at 0-based index
\* g_1+...+g_k is processed, it places nothing and leaves that system to be
\* processed once more, under the auto-fit rule.
C15_TransitionAtPlanSum ==
    [][/\ ~Reversal
       /\ Transition =>
            /\ rewinds = 0 /\ rewinds' = 1
            /\ systemIndex = SumAll(plan.list)
            /\ systemIndex' = systemIndex
            /\ pages' = pages
       /\ (InLoop /\ GroupedRun /\ ~groups.given) => PlacedByAutoFit]_vars

\* C15 amended: as claimed, but the step is taken while the system at
\* 0-based index g_1+...+g_k + 1 is processed: the system at index
\* g_1+...+g_k closes page k and is placed by the grouped rule as the first
\* system of page k+1.
C15_TransitionAfterPlanSum ==
    [][/\ ~Reversal
       /\ Transition =>
            /\ rewinds = 0 /\ rewinds' = 1
            /\ systemIndex = SumAll(plan.list) + 1
            /\ systemIndex' = systemIndex
            /\ pages' = pages
            /\ Len(pages) = Len(plan.list) + 1
            /\ pages[Len(pages)] = <<systems[SumAll(plan.list) + 1]>>
       /\ (InLoop /\ GroupedRun /\ ~groups.given) => PlacedByAutoFit]_vars

\* C15 witness: the state right after the step from GROUPED to AUTO_FIT:
\* one rewind, groups is None, and the system after the first one beyond
\* the plan is still to be placed.
C15_Witness ==
    /\ pc = "pack"
    /\ GroupedRun
    /\ ~groups.given
    /\ rewinds = 1
    /\ systemIndex = SumAll(plan.list) + 1
    /\ systemIndex < Len(systems)
    /\ Len(Flatten(pages)) = systemIndex


\* Auto-fit packing as the claim describes it: the first system of a page
\* is placed without a height check, then systems are added while
\* requiredHeight <= pageHeight.  acc holds the pages made so far.
RECURSIVE GreedyPages(_, _)
GreedyPages(acc, rest) ==
    IF rest = <<>> THEN acc
    ELSE LET s == Head(rest) IN
         IF acc = <<>> THEN GreedyPages(<< <<s>> >>, Tail(rest))
         ELSE IF Required(Append(acc[Len(acc)], s)) <= pageHeight
              THEN GreedyPages([acc EXCEPT ![Len(acc)] = Append(@, s)], Tail(rest))
              ELSE GreedyPages(Append(acc, <<s>>), Tail(rest))

\* C16: with a plan g_1..g_k and more than g_1+...+g_k systems, the pages
\* after page k are the pages auto-fit packing makes of the remaining
\* systems alone, starting on a fresh page.
C16_FallbackIsAutoFit ==
    (GroupedRun /\ Packed /\ Len(systems) > SumAll(plan.list)) =>
        SubSeq(pages, Len(plan.list) + 1, Len(pages))
            = GreedyPages(<<>>, SubSeq(systems, SumAll(plan.list) + 1, Len(systems)))

\* C16 witness: plan [1] on three systems, the second and third packed
\* together onto page 2 after the plan ran out.
C16_Witness ==
    /\ pc = "print"
    /\ plan = Given(<<1>>)
    /\ rewinds = 1
    /\ Len(systems) = 3
    /\ Len(pages) = 2
    /\ pages[2] = SubSeq(systems, 2, 3)


\* C17: the packing loop ends for every score and every grouping mode;
\* systemIndex is decremented at most once, the loop body runs at most
\* N + 1 times for N systems, and every iteration but the rewinding one
\* places exactly one system.
C17_LoopTerminates ==
    /\ <>(pc # "pack")
    /\ [](/\ rewinds <= 1
          /\ iterations <= Len(systems) + 1
          /\ systemIndex = iterations - rewinds
          /\ Len(Flatten(pages)) = iterations - rewinds)

\* C17 witness: the loop has ended after N + 1 iterations, one of them the
\* rewind.
C17_Witness ==
    /\ pc = "print"
    /\ rewinds = 1
    /\ iterations = Len(systems) + 1
    /\ Len(Flatten(pages)) = Len(systems)


\* C18: dropFirst and dropLast never leave out a page of the score: on
\* every printed page every score block of every system is drawn, whatever
\* its width.
C18_ScoreBlocksDrawn ==
    \A p \in 1..Len(written) :
        LET w == written[p] IN
        \A s \in Slots(w, "score") : Drawn(w, s[1], s[2])


\* C19: the blocks drawn on a page never overlap: no gap between systems is
\* negative, and every drawn block's top edge is at or below the bottom
\* edge of the block drawn before it, on every page of every mode and with
\* either value of the ragged flag.
C19_NoVerticalOverlap ==
    \A p \in 1..Len(written) :
        LET w == written[p] IN
        /\ \A j \in 1..Len(w.gaps) : w.gaps[j] >= 0
        /\ \A k \in 1..(Len(w.ops) - 1) :
                w.ops[k + 1].top <= w.ops[k].top - w.scale * w.ops[k].object.height


\* C20: what is drawn stays inside the canvas above the bottom margin: on
\* every printed page the cursor after the last block is at least
\* bottomMargin (so not below 0), and the first drawn block has its top at
\* canvas height - topMargin, for every combination of the flags.
C20_ContentInsideCanvas ==
    \A p \in 1..Len(written) :
        LET w == written[p] IN
        /\ w.height >= w.scale * bottomMargin
        /\ w.height >= 0
        /\ Len(w.ops) >= 1 => w.ops[1].top = w.scale * (w.canvas - topMargin)

====
